---- MODULE Spec2Model ----
(***************************************************************************)
(* Model of insert_to_mangodb.py: one Lambda entry point, lambda_handler,  *)
(* that serves a file download (API Gateway event) or reconciles a batch   *)
(* of S3 notifications against the MongoDB collection "files".             *)
(*                                                                         *)
(* Strings the code takes apart are sequences of tokens: an S3 key is      *)
(* split on "/", an ETag is stripped of its quotes, an event name is       *)
(* searched for "ObjectRemoved".  An optional value (dict.get, find_one)   *)
(* is a sequence of length 0 (None) or 1.                                  *)
(***************************************************************************)
EXTENDS Integers, Sequences, FiniteSets, TLC

\* ------------------------------------------------------------------ bounds

\* notification records delivered in one behaviour, over all batches
MaxRecords == 2

\* Lambda workers that may run lambda_handler at the same time
Workers == {"w1", "w2"}

\* ------------------------------------------------------------- input values

Q == "\""
SLASH == "/"

Buckets == {"b1"}
Paths == {<< "f" >>, << "a", SLASH, "f" >>}
S3Keys == Buckets \X Paths

\* ETags as head_object reports them: quoted
ETags == {<< Q, "e1", Q >>, << Q, "e2", Q >>}
EventTimes == {1, 2}
EventNames == {<< "ObjectCreated", ":", "Put" >>, << "ObjectRemoved", ":", "Delete" >>}

NoObject == << >>

\* a well-formed notification record, and one that lacks the 'eventName' key
Records ==
    [wellFormed : {TRUE}, eventName : EventNames, bucket : Buckets,
     key : Paths, eventTime : EventTimes]
MalformedRecord ==
    [wellFormed |-> FALSE, eventName |-> << >>, bucket |-> "b1",
     key |-> << "f" >>, eventTime |-> 1]
NoRecord ==
    [wellFormed |-> FALSE, eventName |-> << >>, bucket |-> "",
     key |-> << >>, eventTime |-> 0]

\* queryStringParameters: null, or a map in which 'bucket' and 'file' are
\* each absent (<< >>), empty (<< "" >>, << << >> >>) or given
QueryParams ==
    {[isNull |-> TRUE, bucket |-> << >>, file |-> << >>]}
    \cup [isNull : {FALSE},
          bucket : {<< >>, << "" >>, << "b1" >>},
          file : {<< >>, << << >> >>} \cup {<< p >> : p \in Paths}]
NoParams == [isNull |-> TRUE, bucket |-> << >>, file |-> << >>]

\* ---------------------------------------------------------- pure functions

RECURSIVE LStrip(_)
LStrip(s) == IF s # << >> /\ Head(s) = Q THEN LStrip(Tail(s)) ELSE s

RECURSIVE RStrip(_)
RStrip(s) ==
    IF s # << >> /\ s[Len(s)] = Q THEN RStrip(SubSeq(s, 1, Len(s) - 1)) ELSE s

\* s3_response['ETag'].strip('"')
StripQuotes(s) == RStrip(LStrip(s))

RECURSIVE FirstSegment(_)
\* mutant of LastSegment: split('/')[0]
FirstSegment(p) ==
    IF \E i \in 1..Len(p) : p[i] = SLASH
    THEN FirstSegment(SubSeq(p, 1, Len(p) - 1))
    ELSE p

RECURSIVE LastSegment(_)
\* file_path.split('/')[-1]
LastSegment(p) ==
    IF \E i \in 1..Len(p) : p[i] = SLASH
    THEN LastSegment(Tail(p))
    ELSE p

\* 'ObjectRemoved' in s3_event
IsRemoved(eventName) == \E i \in 1..Len(eventName) : eventName[i] = "ObjectRemoved"

\* not bucket_name / not file_path: None, or the empty value of its type
Falsy(opt, empty) == opt = << >> \/ opt[1] = empty

\* ------------------------------------------------------------ the collection

\* the filter {"bucket": bucket_name, "file_path": file_path}
Matches(doc, bucket, path) == doc.bucket = bucket /\ doc.file_path = path

RECURSIVE FirstMatch(_, _, _, _)
\* index of the first document at or after i that matches, 0 if none
FirstMatch(coll, bucket, path, i) ==
    IF i > Len(coll) THEN 0
    ELSE IF Matches(coll[i], bucket, path) THEN i
    ELSE FirstMatch(coll, bucket, path, i + 1)

\* collection.find_one(filter): the first match, or None
find_one(coll, bucket, path) ==
    LET i == FirstMatch(coll, bucket, path, 1)
    IN  IF i = 0 THEN << >> ELSE << coll[i] >>

\* collection.insert_one(doc): no unique index on the collection
insert_one(coll, bucket, path, etag, ts) ==
    Append(coll, [bucket |-> bucket, file_path |-> path, etag |-> etag, timestamp |-> ts])

\* mutant of find_one_and_update: "timestamp" is left out of $set
UpdateEtagOnly(coll, bucket, path, etag, ts) ==
    LET i == FirstMatch(coll, bucket, path, 1)
    IN  IF i = 0 THEN coll ELSE [coll EXCEPT ![i] = [@ EXCEPT !.etag = etag]]

\* mutant of find_one_and_update: upsert=True
UpdateWithUpsert(coll, bucket, path, etag, ts) ==
    LET i == FirstMatch(coll, bucket, path, 1)
    IN  IF i = 0 THEN insert_one(coll, bucket, path, etag, ts)
        ELSE [coll EXCEPT ![i] = [@ EXCEPT !.etag = etag, !.timestamp = ts]]

\* collection.find_one_and_update(filter, {"$set": {etag, timestamp}}): no upsert
find_one_and_update(coll, bucket, path, etag, ts) ==
    LET i == FirstMatch(coll, bucket, path, 1)
    IN  IF i = 0 THEN coll
        ELSE [coll EXCEPT ![i] = [@ EXCEPT !.etag = etag, !.timestamp = ts]]

\* collection.delete_one(filter): removes the first match only
delete_one(coll, bucket, path) ==
    LET i == FirstMatch(coll, bucket, path, 1)
    IN  IF i = 0 THEN coll
        ELSE SubSeq(coll, 1, i - 1) \o SubSeq(coll, i + 1, Len(coll))

\* number of documents of the collection with this key
CountKey(coll, bucket, path) ==
    Cardinality({i \in 1..Len(coll) : Matches(coll[i], bucket, path)})

\* ------------------------------------------------------------------- state

VARIABLES
    store,      \* the MongoDB collection "files": documents in natural order
    objects,    \* the S3 objects: key -> quoted ETag, or NoObject
    inv,        \* per worker: the running invocation of lambda_handler
    prev,       \* the notification record completed just before the current one
    delivered   \* notification records handed to the loop so far

vars == << store, objects, inv, prev, delivered >>

NoResponse == [statusCode |-> 0, body |-> << >>, contentType |-> << >>,
               filename |-> << >>, isBase64Encoded |-> FALSE]

Idle ==
    [pc |-> "idle", shape |-> "none", qsp |-> NoParams,
     rec |-> NoRecord, recDone |-> FALSE,
     event_etag |-> << >>, file_record |-> << >>, headAfter |-> FALSE,
     calls |-> << >>, before |-> << >>,
     err |-> "none", response |-> NoResponse]

NoEntry ==
    [valid |-> FALSE, batch |-> "none", rec |-> NoRecord, event_etag |-> << >>,
     existed |-> FALSE]

\* the completed record of invocation l, as the next record sees it: batch
\* names the worker whose running batch it belongs to ("none" once that
\* invocation is over), existed tells whether the collection held its key
\* before it was processed
Entry(l, batch) ==
    [valid |-> TRUE, batch |-> batch, rec |-> l.rec, event_etag |-> l.event_etag,
     existed |-> CountKey(l.before, l.rec.bucket, l.rec.key) > 0]

Init ==
    /\ store = << >>
    /\ objects = [k \in S3Keys |-> NoObject]
    /\ inv = [w \in Workers |-> Idle]
    /\ prev = NoEntry
    /\ delivered = 0

\* ------------------------------------------------------- control of a handler

\* the content type S3 reports for an object
ContentTypeOf(etag) == << "type", StripQuotes(etag) >>

\* lines 128-133: every exception becomes a 500 response
ErrorResponse(e) ==
    [NoResponse EXCEPT !.statusCode = 500, !.body = << "Error processing event: ", e >>]

\* mutants of Raise: the except clause logs the error and the loop goes on;
\* there is no except clause and the exception leaves the handler
RaiseSwallowed(l, e) == [l EXCEPT !.pc = "loop", !.err = e]
RaisePropagates(l, e) == [l EXCEPT !.pc = "crashed", !.err = e]

\* an exception raised inside the try block
Raise(l, e) == [l EXCEPT !.pc = "done", !.err = e, !.response = ErrorResponse(e)]

\* a return statement
Return(l, status, body) ==
    [l EXCEPT !.pc = "done",
              !.response = [NoResponse EXCEPT !.statusCode = status, !.body = body]]

\* mutants of Branch: the lookup's outcome is ignored; the etags are not compared
BranchWithoutLookup(file_record, event_etag) == "insert_one"
BranchWithoutCompare(file_record, event_etag) ==
    IF file_record = << >> THEN "insert_one" ELSE "find_one_and_update"

\* lines 78-110: what the handler does with the outcome of find_one
Branch(file_record, event_etag) ==
    IF file_record = << >> THEN "insert_one"
    ELSE IF file_record[1].etag = event_etag THEN "unchanged"
    ELSE "find_one_and_update"

\* lines 112-115, reached after the branch: delete_one, or the record is done
AfterBranch(l) ==
    IF IsRemoved(l.rec.eventName)
    THEN [l EXCEPT !.pc = "delete_one"]
    ELSE [l EXCEPT !.pc = "loop", !.recDone = TRUE]

Called(l, name) == [l EXCEPT !.calls = Append(@, name)]

\* ------------------------------------------------------------ the handler

\* mutant of Dispatch: 'Records' is tested before 'queryStringParameters'
DispatchRecordsFirst(hasQuery, hasRecords) ==
    IF hasRecords THEN "s3" ELSE IF hasQuery THEN "api" ELSE "other"

\* lines 29, 60, 122: the branch taken for an event that has, or has not, the
\* keys 'queryStringParameters' and 'Records'
Dispatch(hasQuery, hasRecords) ==
    IF hasQuery THEN "api" ELSE IF hasRecords THEN "s3" ELSE "other"

\* the keys an event carries, as recorded in the invocation
ShapeOf(hasQuery, hasRecords) ==
    IF hasQuery THEN (IF hasRecords THEN "api+s3" ELSE "api")
    ELSE IF hasRecords THEN "s3" ELSE "other"

\* Dispatch, lines 29-38: the event carries 'queryStringParameters' (and
\* perhaps 'Records' too, which this branch never looks at)
InvokeRetrieval(w) ==
    /\ inv[w].pc = "idle"
    /\ \E qsp \in QueryParams, hasRecords \in BOOLEAN :
         LET l == [Idle EXCEPT !.shape = ShapeOf(TRUE, hasRecords), !.qsp = qsp]
         IN  /\ Dispatch(TRUE, hasRecords) = "api"
             /\ inv' = [inv EXCEPT ![w] =
                 IF qsp.isNull
                 THEN Raise(l, "AttributeError")
                 ELSE IF Falsy(qsp.bucket, "") \/ Falsy(qsp.file, << >>)
                 THEN Return(l, 400, "Missing 'bucket' or 'file' query parameter.")
                 ELSE [l EXCEPT !.pc = "get_object"]]
    /\ UNCHANGED << store, objects, prev, delivered >>

\* Dispatch, line 60: the event carries 'Records' and the branch of the
\* query parameters was not taken
InvokeNotification(w) ==
    /\ inv[w].pc = "idle"
    /\ \E hasQuery \in BOOLEAN :
         /\ Dispatch(hasQuery, TRUE) = "s3"
         /\ inv' = [inv EXCEPT ![w] =
                 [Idle EXCEPT !.shape = ShapeOf(hasQuery, TRUE), !.pc = "loop"]]
    /\ UNCHANGED << store, objects, prev, delivered >>

\* Dispatch, lines 122-126: neither key
InvokeUnsupported(w) ==
    /\ inv[w].pc = "idle"
    /\ Dispatch(FALSE, FALSE) = "other"
    /\ inv' = [inv EXCEPT ![w] =
                 Return([Idle EXCEPT !.shape = ShapeOf(FALSE, FALSE)],
                        400, "Unsupported event source.")]
    /\ UNCHANGED << store, objects, prev, delivered >>

\* lines 41-57: s3_client.get_object and the download response
GetObject(w) ==
    LET l == Called(inv[w], "get_object")
        k == << l.qsp.bucket[1], l.qsp.file[1] >>
    IN  /\ inv[w].pc = "get_object"
        /\ \/ /\ objects[k] # NoObject
              /\ inv' = [inv EXCEPT ![w] =
                    [l EXCEPT !.pc = "done",
                              !.response =
                                 [statusCode |-> 200,
                                  body |-> << "base64", objects[k] >>,
                                  contentType |-> ContentTypeOf(objects[k]),
                                  filename |-> LastSegment(l.qsp.file[1]),
                                  isBase64Encoded |-> TRUE]]]
           \/ /\ objects[k] = NoObject
              /\ inv' = [inv EXCEPT ![w] = Raise(l, "NoSuchKey")]
           \/ inv' = [inv EXCEPT ![w] = Raise(l, "Unavailable")]
        /\ UNCHANGED << store, objects, prev, delivered >>

\* line 61: the for loop takes the next record of the batch, if any.  The
\* batch is an input the handler reads one record at a time, so its records
\* are drawn when the loop reaches them (a batch may be empty);
\* lines 63-65 read its fields (KeyError on a record that lacks one);
\* lines 117-120 return 200 after the last one
NextRecord(w) ==
    LET l == inv[w]
    IN  /\ l.pc = "loop"
        /\ \/ /\ delivered < MaxRecords
              /\ delivered' = delivered + 1
              /\ prev' = IF l.recDone THEN Entry(l, w) ELSE prev
              /\ \E r \in Records \cup {MalformedRecord} :
                   inv' = [inv EXCEPT ![w] =
                      LET n == [l EXCEPT !.rec = r, !.recDone = FALSE,
                                         !.event_etag = << >>, !.file_record = << >>,
                                         !.headAfter = FALSE,
                                         !.calls = << >>, !.before = store]
                      IN  IF r.wellFormed
                          THEN [n EXCEPT !.pc = "head_object"]
                          ELSE Raise(n, "KeyError")]
           \/ /\ inv' = [inv EXCEPT ![w] =
                          Return(l, 200, "S3 event processed successfully.")]
              /\ UNCHANGED << delivered, prev >>
        /\ UNCHANGED << store, objects >>

\* lines 68-69: s3_client.head_object, for every record whatever its kind;
\* headAfter records that this call returned after the head_object call of the
\* record another worker has in hand
HeadObject(w) ==
    LET l == Called(inv[w], "head_object")
        k == << l.rec.bucket, l.rec.key >>
    IN  /\ inv[w].pc = "head_object"
        /\ \/ /\ objects[k] # NoObject
              /\ inv' = [inv EXCEPT ![w] =
                    [l EXCEPT !.pc = "find_one",
                              !.event_etag = StripQuotes(objects[k]),
                              !.headAfter = \E v \in Workers \ {w} :
                                               inv[v].event_etag # << >>]]
           \/ /\ objects[k] = NoObject
              /\ inv' = [inv EXCEPT ![w] = Raise(l, "NotFound")]
           \/ inv' = [inv EXCEPT ![w] = Raise(l, "Unavailable")]
        /\ UNCHANGED << store, objects, prev, delivered >>

\* lines 72-98: collection.find_one and the choice of a branch
FindOne(w) ==
    LET l == Called(inv[w], "find_one")
        found == find_one(store, l.rec.bucket, l.rec.key)
        b == Branch(found, l.event_etag)
        m == [l EXCEPT !.file_record = found]
    IN  /\ inv[w].pc = "find_one"
        /\ \/ inv' = [inv EXCEPT ![w] =
                 IF b = "unchanged" THEN AfterBranch(m) ELSE [m EXCEPT !.pc = b]]
           \/ inv' = [inv EXCEPT ![w] = Raise(l, "Unavailable")]
        /\ UNCHANGED << store, objects, prev, delivered >>

\* lines 83-88: collection.insert_one
InsertOne(w) ==
    LET l == Called(inv[w], "insert_one")
    IN  /\ inv[w].pc = "insert_one"
        /\ \/ /\ store' = insert_one(store, l.rec.bucket, l.rec.key,
                                     l.event_etag, l.rec.eventTime)
              /\ inv' = [inv EXCEPT ![w] = AfterBranch(l)]
           \/ /\ inv' = [inv EXCEPT ![w] = Raise(l, "Unavailable")]
              /\ UNCHANGED store
        /\ UNCHANGED << objects, prev, delivered >>

\* lines 101-110: collection.find_one_and_update
FindOneAndUpdate(w) ==
    LET l == Called(inv[w], "find_one_and_update")
    IN  /\ inv[w].pc = "find_one_and_update"
        /\ \/ /\ store' = find_one_and_update(store, l.rec.bucket, l.rec.key,
                                              l.event_etag, l.rec.eventTime)
              /\ inv' = [inv EXCEPT ![w] = AfterBranch(l)]
           \/ /\ inv' = [inv EXCEPT ![w] = Raise(l, "Unavailable")]
              /\ UNCHANGED store
        /\ UNCHANGED << objects, prev, delivered >>

\* lines 113-115: collection.delete_one
DeleteOne(w) ==
    LET l == Called(inv[w], "delete_one")
    IN  /\ inv[w].pc = "delete_one"
        /\ \/ /\ store' = delete_one(store, l.rec.bucket, l.rec.key)
              /\ inv' = [inv EXCEPT ![w] = [l EXCEPT !.pc = "loop", !.recDone = TRUE]]
           \/ /\ inv' = [inv EXCEPT ![w] = Raise(l, "Unavailable")]
              /\ UNCHANGED store
        /\ UNCHANGED << objects, prev, delivered >>

\* the response has gone back to the host; the worker waits for its next event
Retire(w) ==
    /\ inv[w].pc = "done"
    /\ inv' = [inv EXCEPT ![w] = Idle]
    /\ prev' = IF inv[w].rec = NoRecord
               THEN [prev EXCEPT !.batch = IF @ = w THEN "none" ELSE @]
               ELSE IF inv[w].recDone THEN Entry(inv[w], "none")
               ELSE NoEntry
    /\ UNCHANGED << store, objects, delivered >>

\* ------------------------------------------------------------ the S3 bucket

\* an upload: the object gets a new ETag
PutObject ==
    /\ \E k \in S3Keys, e \in ETags :
         /\ objects[k] # e
         /\ objects' = [objects EXCEPT ![k] = e]
    /\ UNCHANGED << store, inv, prev, delivered >>

DeleteObject ==
    /\ \E k \in S3Keys :
         /\ objects[k] # NoObject
         /\ objects' = [objects EXCEPT ![k] = NoObject]
    /\ UNCHANGED << store, inv, prev, delivered >>

\* ----------------------------------------------------------- specifications

\* no other worker has an invocation in progress
Alone(w) == \A v \in Workers \ {w} : inv[v].pc = "idle"

\* every other invocation in progress is a notification batch
AmongBatches(w) == \A v \in Workers \ {w} : inv[v].shape \in {"none", "s3"}

\* Invocations run concurrently on the pool of workers.  A download and an
\* unsupported event touch nothing but their own invocation and read only
\* objects, which no handler writes: their steps commute with those of every
\* other invocation, so they are started one at a time, while notification
\* batches overlap in every way.
Next ==
    \/ \E w \in Workers : Alone(w) /\ InvokeRetrieval(w)
    \/ \E w \in Workers : Alone(w) /\ InvokeUnsupported(w)
    \/ \E w \in Workers : AmongBatches(w) /\ InvokeNotification(w)
    \/ \E w \in Workers : GetObject(w)
    \/ \E w \in Workers : NextRecord(w)
    \/ \E w \in Workers : HeadObject(w)
    \/ \E w \in Workers : FindOne(w)
    \/ \E w \in Workers : InsertOne(w)
    \/ \E w \in Workers : FindOneAndUpdate(w)
    \/ \E w \in Workers : DeleteOne(w)
    \/ \E w \in Workers : Retire(w)
    \/ PutObject
    \/ DeleteObject

Spec == Init /\ [][Next]_vars

\* one invocation at a time
NextSeq ==
    \/ \E w \in Workers : Alone(w) /\ InvokeRetrieval(w)
    \/ \E w \in Workers : Alone(w) /\ InvokeNotification(w)
    \/ \E w \in Workers : Alone(w) /\ InvokeUnsupported(w)
    \/ \E w \in Workers : Alone(w) /\ GetObject(w)
    \/ \E w \in Workers : Alone(w) /\ NextRecord(w)
    \/ \E w \in Workers : Alone(w) /\ HeadObject(w)
    \/ \E w \in Workers : Alone(w) /\ FindOne(w)
    \/ \E w \in Workers : Alone(w) /\ InsertOne(w)
    \/ \E w \in Workers : Alone(w) /\ FindOneAndUpdate(w)
    \/ \E w \in Workers : Alone(w) /\ DeleteOne(w)
    \/ \E w \in Workers : Alone(w) /\ Retire(w)
    \/ PutObject
    \/ DeleteObject

\* a document an earlier invocation wrote for an object since deleted
SeedDoc ==
    [bucket |-> "b1", file_path |-> << "a", SLASH, "f" >>,
     etag |-> << "e1" >>, timestamp |-> 1]

\* the collection is empty or holds what an earlier invocation left in it
InitSeq ==
    /\ store \in {<< >>, << SeedDoc >>}
    /\ objects = [k \in S3Keys |-> NoObject]
    /\ inv = [w \in Workers |-> Idle]
    /\ prev = NoEntry
    /\ delivered = 0

SpecSeq == InitSeq /\ [][NextSeq]_vars

\* ------------------------------------------------------------ vocabulary

MutatingCalls == {"insert_one", "find_one_and_update", "delete_one"}
StoreCalls == MutatingCalls \cup {"find_one"}

NoCallIn(calls, names) == \A i \in 1..Len(calls) : calls[i] \notin names

\* worker w has a notification record in hand (being processed, or the last one)
HasRecord(w) == inv[w].shape = "s3" /\ inv[w].rec.wellFormed

\* the record in hand has been processed to its end
RecordDone(w) == HasRecord(w) /\ inv[w].recDone

IsDeleteRecord(w) == HasRecord(w) /\ IsRemoved(inv[w].rec.eventName)
IsCreateRecord(w) == HasRecord(w) /\ ~IsRemoved(inv[w].rec.eventName)

KeyCount(w) == CountKey(store, inv[w].rec.bucket, inv[w].rec.key)

\* the invocation ended, and not because a service was unreachable
Ended(w) == inv[w].pc = "done" /\ inv[w].err # "Unavailable"

IsDownload(w) == inv[w].shape \in {"api", "api+s3"}

\* ------------------------------------------------------------------ claims

\* C1 (as claimed): once an invocation has ended on a record whose eventName
\* contains "ObjectRemoved", whatever the collection held for the key and
\* whether or not the object still exists, the collection holds no document
\* for the key and the response is 200.
C1_DeleteAlwaysWins ==
    \A w \in Workers :
        (Ended(w) /\ IsDeleteRecord(w))
            => (inv[w].response.statusCode = 200 /\ KeyCount(w) = 0)

\* C2 (as claimed): in every reachable state, under overlapping invocations,
\* the collection holds at most one document per (bucket, file_path).
C2_AtMostOneRecordPerKey ==
    \A k \in S3Keys : CountKey(store, k[1], k[2]) <= 1

\* the record just completed is the one completed right before it, a creation
\* that found no document for its key, and the object kept its fingerprint
SameCreationTwice(w) ==
    /\ RecordDone(w)
    /\ IsCreateRecord(w)
    /\ prev.valid
    /\ prev.rec = inv[w].rec
    /\ ~prev.existed
    /\ prev.event_etag = inv[w].event_etag

\* C3: when the same creation record is processed twice in sequence from a
\* collection without its key, the collection ends with exactly one document
\* for the key and the second processing issues no insert, update or delete
\* and leaves the collection as it found it.
C3_IdempotentCreation ==
    \A w \in Workers :
        SameCreationTwice(w)
            => /\ KeyCount(w) = 1
               /\ NoCallIn(inv[w].calls, MutatingCalls)
               /\ store = inv[w].before

C3_Witness == \E w \in Workers : SameCreationTwice(w) /\ Len(inv[w].calls) = 2

\* a create/modify record was processed to its end and find_one returned a
\* document whose etag equals the fingerprint head_object reported
FingerprintStable(w) ==
    /\ RecordDone(w)
    /\ IsCreateRecord(w)
    /\ inv[w].file_record # << >>
    /\ inv[w].file_record[1].etag = inv[w].event_etag

\* C4: a create/modify record whose fetched fingerprint equals the stored etag
\* leaves the collection unchanged: no insert, update or delete is issued and
\* the document keeps its etag and timestamp.
C4_StableFingerprintNoMutation ==
    \A w \in Workers :
        FingerprintStable(w)
            => /\ NoCallIn(inv[w].calls, MutatingCalls)
               /\ store = inv[w].before
               /\ find_one(store, inv[w].rec.bucket, inv[w].rec.key) = inv[w].file_record

\* the stable case with an event time other than the stored timestamp
C4_Witness ==
    \E w \in Workers :
        /\ FingerprintStable(w)
        /\ inv[w].file_record[1].timestamp # inv[w].rec.eventTime

\* a create/modify record was processed to its end and find_one returned a
\* document whose etag differs from the fetched fingerprint
FingerprintChanged(w) ==
    /\ RecordDone(w)
    /\ IsCreateRecord(w)
    /\ inv[w].file_record # << >>
    /\ inv[w].file_record[1].etag # inv[w].event_etag

\* C5: a create/modify record whose fetched fingerprint differs from the
\* stored etag sets the document's etag to the fetched fingerprint and its
\* timestamp to the record's eventTime, keeps its bucket and file_path,
\* changes no other key's document and keeps the number of documents.
C5_ChangedFingerprintUpdates ==
    \A w \in Workers :
        FingerprintChanged(w)
            => LET l == inv[w]
                   d == find_one(store, l.rec.bucket, l.rec.key)
               IN  /\ d = << [bucket |-> l.file_record[1].bucket,
                              file_path |-> l.file_record[1].file_path,
                              etag |-> l.event_etag,
                              timestamp |-> l.rec.eventTime] >>
                   /\ Len(store) = Len(l.before)
                   /\ \A i \in 1..Len(store) :
                        IF Matches(l.before[i], l.rec.bucket, l.rec.key)
                        THEN Matches(store[i], l.rec.bucket, l.rec.key)
                        ELSE store[i] = l.before[i]

\* the update case on a collection that also holds another key's document,
\* with a new event time
C5_Witness ==
    \E w \in Workers :
        /\ FingerprintChanged(w)
        /\ Len(store) = 2
        /\ inv[w].file_record[1].timestamp # inv[w].rec.eventTime

\* the invocation ended on the second of two records of its batch that name
\* the same key, the first of which was processed to its end
EndedOnPair(w) ==
    /\ Ended(w)
    /\ HasRecord(w)
    /\ prev.valid
    /\ prev.batch = w
    /\ prev.rec.bucket = inv[w].rec.bucket
    /\ prev.rec.key = inv[w].rec.key

\* C6 (as claimed): in one batch, a create followed by a delete of the same key
\* leaves the key absent; a delete followed by a create whose fingerprint was
\* fetched leaves the key present with that fingerprint; the response is 200.
C6_LastWriteWinsByBatchOrder ==
    \A w \in Workers :
        EndedOnPair(w)
            => /\ (~IsRemoved(prev.rec.eventName) /\ IsDeleteRecord(w))
                    => (inv[w].response.statusCode = 200 /\ KeyCount(w) = 0)
               /\ (IsRemoved(prev.rec.eventName) /\ IsCreateRecord(w)
                        /\ inv[w].event_etag # << >>)
                    => /\ inv[w].response.statusCode = 200
                       /\ KeyCount(w) = 1
                       /\ find_one(store, inv[w].rec.bucket, inv[w].rec.key)[1].etag
                              = inv[w].event_etag

\* head_object reported that the object of a create/modify record is gone
HeadNotFound(w) == IsCreateRecord(w) /\ inv[w].err = "NotFound"

C8_NoHeadObjectForDeletes ==
    \A w \in Workers :
        IsDeleteRecord(w)
            => \A i \in 1..Len(inv[w].calls) : inv[w].calls[i] = "delete_one"

\* C9 (as claimed): a download whose 'bucket' or 'file' is absent or empty,
\* or whose parameter map is null, is answered 400 without any call to S3 or
\* to the collection.
C9_MissingParameterIs400 ==
    \A w \in Workers :
        (/\ inv[w].pc = "done"
         /\ IsDownload(w)
         /\ \/ inv[w].qsp.isNull
            \/ Falsy(inv[w].qsp.bucket, "")
            \/ Falsy(inv[w].qsp.file, << >>))
            => (inv[w].response.statusCode = 400 /\ inv[w].calls = << >>)

\* where a handler can be
ProgramCounters ==
    {"idle", "get_object", "loop", "head_object", "find_one", "insert_one",
     "find_one_and_update", "delete_one", "done"}

\* C10: every invocation, whatever its event and whichever call fails, ends
\* with a response whose statusCode is 200, 400 or 500; no exception leaves
\* the handler, and a failed call gives 500.
C10_ErrorBoundary ==
    \A w \in Workers :
        /\ inv[w].pc \in ProgramCounters
        /\ inv[w].pc = "done" <=> inv[w].response # NoResponse
        /\ inv[w].pc = "done" => inv[w].response.statusCode \in {200, 400, 500}
        /\ inv[w].err # "none"
              => (inv[w].pc = "done" /\ inv[w].response.statusCode = 500)

\* a store call failed in the second record of a batch
C10_Witness ==
    \E w \in Workers :
        /\ inv[w].pc = "done"
        /\ inv[w].err = "Unavailable"
        /\ prev.batch = w
        /\ Len(inv[w].calls) = 3

\* the processing of a record of a notification batch failed
FailedInBatch(w) == inv[w].shape = "s3" /\ inv[w].err # "none"

\* the calls of the record in hand that returned: all of them, or all but
\* the last, which raised
ReturnedCalls(l) ==
    IF l.err = "none" \/ l.calls = << >> THEN l.calls
    ELSE SubSeq(l.calls, 1, Len(l.calls) - 1)

RECURSIVE Replay(_, _, _)
\* the collection coll after the mutating calls among calls, made for the
\* record of l
Replay(coll, l, calls) ==
    IF calls = << >> THEN coll
    ELSE LET c == Head(calls)
             next ==
                 IF c = "insert_one"
                 THEN insert_one(coll, l.rec.bucket, l.rec.key,
                                 l.event_etag, l.rec.eventTime)
                 ELSE IF c = "find_one_and_update"
                 THEN find_one_and_update(coll, l.rec.bucket, l.rec.key,
                                          l.event_etag, l.rec.eventTime)
                 ELSE IF c = "delete_one"
                 THEN delete_one(coll, l.rec.bucket, l.rec.key)
                 ELSE coll
         IN  Replay(next, l, Tail(calls))

\* C11: if the processing of a record of a batch fails, the invocation ends
\* there with a 500 response; the collection is what the earlier records left,
\* changed only by the calls of the failed record that had returned (nothing
\* is rolled back); and the ended invocation makes no further call: it stays
\* as it is until the worker is free again, and leaves the collection alone.
C11_PartialBatchCommit ==
    /\ [](\A w \in Workers :
            FailedInBatch(w)
                => /\ inv[w].pc = "done"
                   /\ inv[w].response.statusCode = 500
                   /\ store = Replay(inv[w].before, inv[w], ReturnedCalls(inv[w])))
    /\ [][\A w \in Workers :
            (FailedInBatch(w) /\ inv[w].pc = "done")
                => /\ inv'[w] = inv[w] \/ inv'[w] = Idle
                   /\ store' = store]_vars

\* the second record of a batch fails in delete_one after its insert_one,
\* and the collection holds what both records wrote
C11_Witness ==
    \E w \in Workers :
        /\ FailedInBatch(w)
        /\ prev.valid
        /\ prev.batch = w
        /\ inv[w].calls = << "head_object", "find_one", "insert_one", "delete_one" >>
        /\ Len(inv[w].before) = 1
        /\ Len(store) = 2

\* the key of the record in hand
RecKey(w) == << inv[w].rec.bucket, inv[w].rec.key >>

\* what head_object told the handler about the record's object is what the
\* bucket holds now: the object had reached its final state
SawFinalObject(w) ==
    \/ inv[w].err = "NotFound" /\ objects[RecKey(w)] = NoObject
    \/ /\ inv[w].event_etag # << >>
       /\ objects[RecKey(w)] # NoObject
       /\ inv[w].event_etag = StripQuotes(objects[RecKey(w)])

\* C12 (as claimed): once the last notification about a key has been processed,
\* the object being in its final state, the collection holds a document for
\* the key if and only if the object exists, and then with the object's
\* fingerprint as its etag.
C12_ConvergesToObjectStore ==
    \A w \in Workers :
        (Ended(w) /\ HasRecord(w) /\ SawFinalObject(w))
            => /\ KeyCount(w) > 0 <=> objects[RecKey(w)] # NoObject
               /\ KeyCount(w) > 0
                    => find_one(store, inv[w].rec.bucket, inv[w].rec.key)[1].etag
                           = StripQuotes(objects[RecKey(w)])

\* f is the part of path p after its last "/" (all of p if it has none)
IsLastSegmentOf(f, p) ==
    /\ \A i \in 1..Len(f) : f[i] # SLASH
    /\ \E n \in 0..Len(p) :
         /\ f = SubSeq(p, n + 1, Len(p))
         /\ n = 0 \/ p[n] = SLASH

\* a download with both parameters given whose get_object returned
Downloaded(w) ==
    /\ IsDownload(w)
    /\ inv[w].pc = "done"
    /\ inv[w].err = "none"
    /\ inv[w].calls # << >>

\* C13: a download with non-empty 'bucket' and 'file' whose get_object
\* succeeds is answered 200 with isBase64Encoded true, the content type S3
\* reported and, as file name, the last "/"-separated segment of the path;
\* the collection is neither read nor written.
C13_RetrievalEnvelope ==
    /\ [](\A w \in Workers :
            Downloaded(w)
                => /\ inv[w].response.statusCode = 200
                   /\ inv[w].response.isBase64Encoded
                   /\ IsLastSegmentOf(inv[w].response.filename, inv[w].qsp.file[1])
                   /\ inv[w].calls = << "get_object" >>)
    /\ [][\A w \in Workers :
            (inv[w].pc = "get_object" /\ inv'[w].pc = "done" /\ inv'[w].err = "none")
                => /\ inv'[w].response.contentType
                        = ContentTypeOf(objects[<< inv[w].qsp.bucket[1],
                                                   inv[w].qsp.file[1] >>])
                   /\ store' = store]_vars

\* a download of a path with a directory part, while the collection holds
\* documents
C13_Witness ==
    \E w \in Workers :
        /\ Downloaded(w)
        /\ inv[w].qsp.file[1] = << "a", SLASH, "f" >>
        /\ store # << >>

\* C14: an event with neither 'queryStringParameters' nor 'Records' is
\* answered 400 "Unsupported event source." without any call to S3 or to the
\* collection; an event with both keys is handled as a download only: it takes
\* no record, calls nothing but get_object and leaves the collection alone.
C14_UnsupportedShape ==
    /\ [](\A w \in Workers :
            /\ inv[w].shape = "other"
                 => /\ inv[w].pc = "done"
                    /\ inv[w].response.statusCode = 400
                    /\ inv[w].response.body = "Unsupported event source."
                    /\ inv[w].calls = << >>
            /\ inv[w].shape = "api+s3"
                 => /\ inv[w].pc \in {"get_object", "done"}
                    /\ inv[w].rec = NoRecord
                    /\ \A i \in 1..Len(inv[w].calls) : inv[w].calls[i] = "get_object")
    /\ [][\A w \in Workers :
            inv[w].shape \in {"other", "api+s3"} => store' = store]_vars

\* an unsupported event has been answered while the collection holds documents
C14_Witness ==
    \E w \in Workers : inv[w].shape = "other" /\ inv[w].pc = "done" /\ store # << >>

\* the calls of the record in hand that are among names
CallsAmong(w, names) == { i \in 1..Len(inv[w].calls) : inv[w].calls[i] \in names }

\* C15 (as claimed): a notification record issues at most one mutating call to
\* the collection, and a record whose eventName contains "ObjectRemoved" issues
\* no mutating call other than delete_one.
C15_OneMutationPerRecord ==
    \A w \in Workers :
        HasRecord(w)
            => /\ Cardinality(CallsAmong(w, MutatingCalls)) <= 1
               /\ IsDeleteRecord(w) => CallsAmong(w, MutatingCalls \ {"delete_one"}) = {}

\* the record in hand is the record processed just before it, and head_object
\* returned the same ETag both times
SameRecordTwice(w) ==
    /\ RecordDone(w)
    /\ prev.valid
    /\ prev.rec = inv[w].rec
    /\ prev.event_etag = inv[w].event_etag

\* C16 (as claimed): when a record of any kind is processed twice in sequence
\* with the object unchanged, the second processing leaves the collection as
\* the first left it and makes at most one call to the collection.
C16_DuplicateDeliveryIdempotent ==
    \A w \in Workers :
        SameRecordTwice(w)
            => /\ store = inv[w].before
               /\ Cardinality(CallsAmong(w, StoreCalls)) <= 1

\* worker w read a document whose etag differs from the object's and is about
\* to update it, and meanwhile another worker's delete record removed it
UpdateAfterDelete(w) ==
    /\ HasRecord(w)
    /\ inv[w].pc = "find_one_and_update"
    /\ inv[w].file_record # << >>
    /\ KeyCount(w) = 0
    /\ \E v \in Workers \ {w} :
         /\ RecordDone(v)
         /\ IsDeleteRecord(v)
         /\ RecKey(v) = RecKey(w)

\* C17: when a worker that read an existing document with another etag issues
\* its find_one_and_update after the document was deleted, the call matches
\* nothing and creates nothing: the collection is unchanged and still holds no
\* document for the key.
C17_UpdateNeverResurrects ==
    [][\A w \in Workers :
         (UpdateAfterDelete(w) /\ inv'[w].pc # "find_one_and_update"
              /\ inv'[w].err = "none")
             => /\ store' = store
                /\ CountKey(store', inv[w].rec.bucket, inv[w].rec.key) = 0]_vars

\* a worker is about to update a document that a concurrent delete record of
\* the other worker, now finished, has removed
C17_Witness ==
    \E w \in Workers : UpdateAfterDelete(w) /\ IsCreateRecord(w)

\* workers v and w have both finished a create/modify record of the same key,
\* and w's head_object returned after v's, with another ETag
HeadedLater(v, w) ==
    /\ v # w
    /\ RecordDone(v) /\ IsCreateRecord(v)
    /\ RecordDone(w) /\ IsCreateRecord(w)
    /\ RecKey(v) = RecKey(w)
    /\ inv[v].event_etag # inv[w].event_etag
    /\ ~inv[v].headAfter
    /\ inv[w].headAfter

\* C18 (as claimed): once two workers have finished concurrent create/modify
\* records of one key between whose head_object calls the object changed, every
\* document stored for the key carries the ETag the later head_object returned.
C18_NoStaleOverwrite ==
    \A v, w \in Workers :
        HeadedLater(v, w)
            => /\ KeyCount(w) > 0
               /\ \A i \in 1..Len(store) :
                    Matches(store[i], inv[w].rec.bucket, inv[w].rec.key)
                        => store[i].etag = inv[w].event_etag

====
